---- MODULE Spec2Model ----
(***************************************************************************)
(* Identity resolution and account reconciliation of web3-auth.           *)
(*                                                                         *)
(* The model follows utils/auth.utils.js (unifiedWalletAuth,               *)
(* linkWalletToUser, updateUsername and the lookups they use) and          *)
(* routes/auth.routes.js.  The Firestore "users" collection is the         *)
(* function `users` from document id to document; the Firebase Auth user   *)
(* table is the counter `authUsers` (createUser hands out a fresh uid).    *)
(* Every `await` of the source is one step of a call, so that two calls    *)
(* can interleave exactly where the JavaScript event loop lets them.       *)
(*                                                                         *)
(* NULL stands for every value the source treats as "not supplied" with a  *)
(* truthiness test (`!username`, `if (walletAddress)`): null, undefined    *)
(* and the empty string.                                                   *)
(***************************************************************************)
EXTENDS Integers, FiniteSets, Sequences, TLC

\* ---------------------------------------------------------------- bounds
MaxUsers == 2
MaxCalls == 3

\* ---------------------------------------------------------------- values
NULL == "null"
Wallets == {"w1", "w2"}
Usernames == {"a", "b"}
OptWallets == Wallets \cup {NULL}
OptUsernames == Usernames \cup {NULL}
Uids == 1..MaxUsers
Procs == {1, 2}

\* messages of the Error objects the source throws
MsgDifferentWallet == "is already linked to a different wallet address"
MsgTaken == "is already taken"
MsgUserNotFound == "User not found"
MsgWalletLinked == "Wallet already linked to another user"
MsgRequired == "User ID and username are required"
MsgNoDocument == "No document to update"
\* the error of a store or issuer request that timed out or was refused
MsgUnavailable == "unavailable"

\* users      the Firestore collection "users": document id -> document
\* authUsers  number of Firebase Auth users created (uids 1..authUsers)
\* clock      the server time, the value of serverTimestamp()
\* calls      number of calls started so far
\* pre        the collection as it was when the running call(s) started
\* prev       the previous call as it ended, and the collection it started on
\* proc      the calls in progress: arguments, position, locals and outcome
VARIABLES users, authUsers, clock, calls, pre, prev, proc

vars == <<users, authUsers, clock, calls, pre, prev, proc>>

\* ---------------------------------------------------------------- store
\* result of getUserByWallet / getUserByUsername / getUserById when no
\* document matches (the source returns null)
NoUser == [id |-> 0, username |-> NULL, walletAddress |-> NULL]

\* the part of `{ ...doc.data(), id: doc.id }` the callers read
Snapshot(id) ==
  [id |-> id, username |-> users[id].username,
   walletAddress |-> users[id].walletAddress]

ByWalletNone(w) == {}

\* documents a `where("walletAddress", "==", w)` query matches
ByWallet(w) == {id \in DOMAIN users : users[id].walletAddress = w}

ByUsernameNone(u) == {}

\* documents a `where("username", "==", u)` query matches
ByUsername(u) == {id \in DOMAIN users : users[id].username = u}

QueryOneUnfiltered(S) ==
  IF S = {} THEN {NoUser} ELSE {Snapshot(id) : id \in DOMAIN users}

\* outcomes of a `.limit(1).get()` over the matching set: null when the
\* set is empty, otherwise any one matching document
QueryOne(S) == IF S = {} THEN {NoUser} ELSE {Snapshot(id) : id \in S}

isUsernameExistsNever(username) == FALSE

isUsernameExists(username) ==
  IF username = NULL THEN FALSE ELSE ByUsername(username) # {}

isWalletExistsNoGuard(walletAddress) == ByWallet(walletAddress) # {}

isWalletExists(walletAddress) ==
  IF walletAddress = NULL THEN FALSE ELSE ByWallet(walletAddress) # {}

getUserByUsernameMiss(username) == {NoUser}

getUserByUsername(username) ==
  IF username = NULL THEN {NoUser} ELSE QueryOne(ByUsername(username))

getUserByWalletMiss(walletAddress) == {NoUser}

getUserByWallet(walletAddress) == QueryOne(ByWallet(walletAddress))

getUserById(uid) ==
  IF uid \in DOMAIN users THEN Snapshot(uid) ELSE NoUser

\* ---------------------------------------------------------------- calls
NoRet ==
  [kind |-> "none", uid |-> 0, isNewUser |-> FALSE, username |-> NULL,
   authType |-> NULL, message |-> NULL]

Ok(uid, isNewUser, username, authType) ==
  [kind |-> "ok", uid |-> uid, isNewUser |-> isNewUser,
   username |-> username, authType |-> authType, message |-> NULL]

Thrown(message) == [NoRet EXCEPT !.kind = "error", !.message = message]

\* the boolean a guard lookup resolves to
Answer(b) == [NoRet EXCEPT !.kind = IF b THEN "true" ELSE "false"]

\* the HTTP response of a route: status code, the `error` field of a failure
\* body and the fields of a success body
NoRes ==
  [status |-> 0, error |-> NULL, uid |-> 0, isNewUser |-> FALSE,
   username |-> NULL, authType |-> NULL]

Failure(status, error) == [NoRes EXCEPT !.status = status, !.error = error]

IdleProc ==
  [pc |-> "idle", op |-> NULL, route |-> NULL, walletAddress |-> NULL,
   username |-> NULL, uid |-> 0, currentWalletAddress |-> NULL,
   existingUser |-> NoUser, userId |-> 0, token |-> <<>>,
   requestedUsername |-> NULL, routeUser |-> NoUser,
   ret |-> NoRet, res |-> NoRes]

Running(p) == proc[p].pc \notin {"idle", "done"}

\* `error.message.includes(...)` chain of the catch block of
\* router.post("/authenticate")
AuthenticateCatch(message) ==
  IF message = MsgDifferentWallet
  THEN Failure(400, "USERNAME_HAS_DIFFERENT_WALLET")
  ELSE IF message = MsgTaken
  THEN Failure(400, "USERNAME_ALREADY_EXISTS")
  ELSE Failure(500, NULL)

\* catch block of router.post("/wallet/link")
WalletLinkCatch(message) ==
  IF message = MsgWalletLinked
  THEN Failure(400, "WALLET_ALREADY_LINKED")
  ELSE IF message = MsgUserNotFound
  THEN Failure(404, "USER_NOT_FOUND")
  ELSE Failure(500, NULL)

\* catch block of router.post("/username")
UsernameCatch(message) ==
  IF message = MsgTaken
  THEN Failure(400, "USERNAME_ALREADY_EXISTS")
  ELSE Failure(500, NULL)

\* catch block of router.post("/anonymous")
AnonymousCatch(message) ==
  IF message = MsgTaken
  THEN Failure(400, "USERNAME_ALREADY_EXISTS")
  ELSE Failure(500, NULL)

\* catch block of router.post("/wallet/connect")
WalletConnectCatch(message) ==
  IF message = MsgDifferentWallet
  THEN Failure(400, "USERNAME_HAS_DIFFERENT_WALLET")
  ELSE IF message = MsgTaken
  THEN Failure(400, "USERNAME_ALREADY_EXISTS")
  ELSE Failure(500, NULL)

\* `existingUser && username && existingUser.username !== username` of
\* router.post("/wallet/connect")
UsernameDiffers(existingUser, username) ==
  /\ existingUser.id # 0
  /\ username # NULL
  /\ existingUser.username # username

\* `existingUsername || username || null`
Either(a, b) == IF a # NULL THEN a ELSE b

\* what the route that made the call answers once the call has returned or
\* thrown; a direct call has no response
Respond(c, r) ==
  CASE c.route = "/authenticate" ->
         IF r.kind = "ok"
         THEN [status |-> 200, error |-> NULL, uid |-> r.uid,
               isNewUser |-> r.isNewUser,
               username |-> Either(r.username, c.username),
               authType |-> r.authType]
         ELSE AuthenticateCatch(r.message)
    [] c.route = "/anonymous" ->
         IF r.kind = "ok"
         THEN [status |-> 200, error |-> NULL, uid |-> r.uid,
               isNewUser |-> r.isNewUser,
               username |-> Either(r.username, c.username),
               authType |-> r.authType]
         ELSE AnonymousCatch(r.message)
    [] c.route = "/wallet/connect" ->
         IF r.kind # "ok"
         THEN WalletConnectCatch(r.message)
         ELSE IF UsernameDiffers(c.routeUser, c.requestedUsername)
         THEN [status |-> 200, error |-> NULL, uid |-> r.uid,
               isNewUser |-> FALSE,
               username |-> c.routeUser.username,
               authType |-> "wallet"]
         ELSE [status |-> 200, error |-> NULL, uid |-> r.uid,
               isNewUser |-> r.isNewUser,
               username |-> Either(r.username, c.username),
               authType |-> r.authType]
    [] c.route = "/wallet/link" ->
         IF r.kind = "ok"
         THEN [NoRes EXCEPT !.status = 200]
         ELSE WalletLinkCatch(r.message)
    [] c.route = "/username" ->
         IF r.kind = "ok"
         THEN [NoRes EXCEPT !.status = 200, !.username = c.username]
         ELSE UsernameCatch(r.message)
    [] OTHER -> NoRes

Finish(c, r) == [c EXCEPT !.pc = "done", !.ret = r, !.res = Respond(c, r)]

Return(p, r) == proc' = [proc EXCEPT ![p] = Finish(proc[p], r)]

Goto(p, label) == proc' = [proc EXCEPT ![p].pc = label]

\* ------------------------------------------------------ unifiedWalletAuth
createCustomTokenTwice(token, userId) == Append(Append(token, userId), userId)

\* `admin.auth().createCustomToken(userId)`: the credentials a call has had
\* minted so far, each named by the uid it is for
createCustomToken(token, userId) == Append(token, userId)

authTypeWallet(walletAddress) == "wallet"

\* `authType: walletAddress ? "wallet" : "anonymous"`
authType(walletAddress) == IF walletAddress # NULL THEN "wallet" ELSE "anonymous"

AuthEntryUsernameFirst(walletAddress, username) ==
  IF username # NULL THEN "getUserByUsername"
  ELSE IF walletAddress # NULL THEN "getUserByWallet"
  ELSE "createUser"

\* the statement unifiedWalletAuth reaches first: the wallet lookup when a
\* wallet is supplied, else the username lookup, else the creation path
AuthEntry(walletAddress, username) ==
  IF walletAddress # NULL THEN "getUserByWallet"
  ELSE IF username # NULL THEN "getUserByUsername"
  ELSE "createUser"

AfterWalletMissCreate(username) == "createUser"

\* where the call continues when the wallet lookup finds nothing
AfterWalletMiss(username) ==
  IF username # NULL THEN "getUserByUsername" ELSE "createUser"

AuthGetUserByWallet(p) ==
  /\ proc[p].pc = "getUserByWallet"
  /\ \E found \in getUserByWallet(proc[p].walletAddress) :
       proc' = [proc EXCEPT
                  ![p].existingUser = found,
                  ![p].userId = found.id,
                  ![p].pc = IF found.id # 0 THEN "walletToken"
                            ELSE AfterWalletMiss(proc[p].username)]
  /\ UNCHANGED <<users, authUsers, clock, calls, pre, prev>>

ResultUsernameSupplied(existingUser, username) == username

\* `username: existingUser.username || null` of a login result
ResultUsername(existingUser, username) == existingUser.username

AuthWalletToken(p) ==
  /\ proc[p].pc = "walletToken"
  /\ proc' = [proc EXCEPT
                ![p].token = createCustomToken(proc[p].token, proc[p].userId),
                          ![p].pc = "walletTouch"]
  /\ UNCHANGED <<users, authUsers, clock, calls, pre, prev>>

AuthWalletTouch(p) ==
  /\ proc[p].pc = "walletTouch"
  /\ LET userId == proc[p].userId IN
     IF userId \in DOMAIN users
     THEN /\ users' = [users EXCEPT ![userId].lastActive = clock]
          /\ Return(p, Ok(userId, FALSE,
                          ResultUsername(proc[p].existingUser, proc[p].username),
                          "wallet"))
     ELSE /\ users' = users
          /\ Return(p, Thrown(MsgNoDocument))
  /\ UNCHANGED <<authUsers, clock, calls, pre, prev>>

HasWalletNever(existingUser) == FALSE

\* `if (existingUser.walletAddress)`: the account found by username already
\* has a wallet, which the authenticate path refuses to change
HasWallet(existingUser) == existingUser.walletAddress # NULL

AuthGetUserByUsername(p) ==
  /\ proc[p].pc = "getUserByUsername"
  /\ \E found \in getUserByUsername(proc[p].username) :
       IF found.id # 0 /\ proc[p].walletAddress # NULL
       THEN IF HasWallet(found)
            THEN proc' = [proc EXCEPT
                            ![p] = Finish([proc[p] EXCEPT !.existingUser = found],
                                          Thrown(MsgDifferentWallet))]
            ELSE proc' = [proc EXCEPT ![p].existingUser = found,
                                      ![p].userId = found.id,
                                      ![p].pc = "linkUpdate"]
       ELSE proc' = [proc EXCEPT
                       ![p].existingUser = found,
                       ![p].userId = found.id,
                       ![p].pc = IF found.id # 0 THEN "token"
                                 ELSE "isUsernameExists"]
  /\ UNCHANGED <<users, authUsers, clock, calls, pre, prev>>

AuthLinkUpdateSkip(p) ==
  /\ proc[p].pc = "linkUpdate"
  /\ Goto(p, "refresh")
  /\ UNCHANGED <<users, authUsers, clock, calls, pre, prev>>

\* the update that links the supplied wallet to the wallet-less account found
\* by username
AuthLinkUpdate(p) ==
  /\ proc[p].pc = "linkUpdate"
  /\ LET userId == proc[p].userId IN
     IF userId \in DOMAIN users
     THEN /\ users' = [users EXCEPT
                         ![userId].walletAddress = proc[p].walletAddress,
                         ![userId].isAnonymous = FALSE,
                         ![userId].lastActive = clock,
                         ![userId].walletLinkedAt = clock]
          /\ Goto(p, "refresh")
     ELSE /\ users' = users
          /\ Return(p, Thrown(MsgNoDocument))
  /\ UNCHANGED <<authUsers, clock, calls, pre, prev>>

\* `existingUser = await getUserById(userId)`, then `if (existingUser)`
AuthRefresh(p) ==
  /\ proc[p].pc = "refresh"
  /\ LET found == getUserById(proc[p].userId) IN
     proc' = [proc EXCEPT ![p].existingUser = found,
                          ![p].userId = found.id,
                          ![p].pc = IF found.id # 0 THEN "token"
                                    ELSE "isUsernameExists"]
  /\ UNCHANGED <<users, authUsers, clock, calls, pre, prev>>

AuthToken(p) ==
  /\ proc[p].pc = "token"
  /\ proc' = [proc EXCEPT
                ![p].token = createCustomToken(proc[p].token, proc[p].userId),
                ![p].pc = "touch"]
  /\ UNCHANGED <<users, authUsers, clock, calls, pre, prev>>

AuthTouchSkip(p) ==
  /\ proc[p].pc = "touch"
  /\ Return(p, Ok(proc[p].userId, FALSE,
                  ResultUsername(proc[p].existingUser, proc[p].username),
                  authType(proc[p].walletAddress)))
  /\ UNCHANGED <<users, authUsers, clock, calls, pre, prev>>

\* `update({lastActive: serverTimestamp()})` and the result of an
\* existing-user login
AuthTouch(p) ==
  /\ proc[p].pc = "touch"
  /\ LET userId == proc[p].userId IN
     IF userId \in DOMAIN users
     THEN /\ users' = [users EXCEPT ![userId].lastActive = clock]
          /\ Return(p, Ok(userId, FALSE,
                          ResultUsername(proc[p].existingUser, proc[p].username),
                          authType(proc[p].walletAddress)))
     ELSE /\ users' = users
          /\ Return(p, Thrown(MsgNoDocument))
  /\ UNCHANGED <<authUsers, clock, calls, pre, prev>>

AuthIsUsernameExists(p) ==
  /\ proc[p].pc = "isUsernameExists"
  /\ IF isUsernameExists(proc[p].username)
     THEN Return(p, Thrown(MsgTaken))
     ELSE Goto(p, "createUser")
  /\ UNCHANGED <<users, authUsers, clock, calls, pre, prev>>

authUserUidAgain == IF authUsers = 0 THEN authUsers + 1 ELSE authUsers

\* `authUser.uid` of the user record admin.auth().createUser() returns: an
\* identifier the issuer has not given out before
authUserUid == authUsers + 1

AuthCreateUser(p) ==
  /\ proc[p].pc = "createUser"
  /\ authUsers < MaxUsers
  /\ authUsers' = authUsers + 1
  /\ proc' = [proc EXCEPT ![p].userId = authUserUid, ![p].pc = "set"]
  /\ UNCHANGED <<users, clock, calls, pre, prev>>

NewUserDataAnonymous(walletAddress, username) ==
  [username |-> username,
   walletAddress |-> walletAddress,
   isAnonymous |-> TRUE,
   createdAt |-> clock,
   lastActive |-> clock,
   walletLinkedAt |-> IF walletAddress # NULL THEN clock ELSE 0]

\* userData of the creation path; walletAddress and walletLinkedAt are only
\* added when a wallet is supplied
NewUserData(walletAddress, username) ==
  [username |-> username,
   walletAddress |-> walletAddress,
   isAnonymous |-> (walletAddress = NULL),
   createdAt |-> clock,
   lastActive |-> clock,
   walletLinkedAt |-> IF walletAddress # NULL THEN clock ELSE 0]

AuthSetSkip(p) ==
  /\ proc[p].pc = "set"
  /\ Goto(p, "newToken")
  /\ UNCHANGED <<users, authUsers, clock, calls, pre, prev>>

\* `db.collection("users").doc(authUser.uid).set(userData)`
AuthSet(p) ==
  /\ proc[p].pc = "set"
  /\ users' = [id \in DOMAIN users \cup {proc[p].userId} |->
                 IF id = proc[p].userId
                 THEN NewUserData(proc[p].walletAddress, proc[p].username)
                 ELSE users[id]]
  /\ Goto(p, "newToken")
  /\ UNCHANGED <<authUsers, clock, calls, pre, prev>>

AuthNewToken(p) ==
  /\ proc[p].pc = "newToken"
  /\ proc' = [proc EXCEPT
                ![p] = Finish([proc[p] EXCEPT
                                 !.token = createCustomToken(proc[p].token,
                                                             proc[p].userId)],
                              Ok(proc[p].userId, TRUE, proc[p].username,
                                 authType(proc[p].walletAddress)))]
  /\ UNCHANGED <<users, authUsers, clock, calls, pre, prev>>

unifiedWalletAuth(p) ==
  \/ AuthGetUserByWallet(p)
  \/ AuthWalletToken(p)
  \/ AuthWalletTouch(p)
  \/ AuthGetUserByUsername(p)
  \/ AuthLinkUpdate(p)
  \/ AuthRefresh(p)
  \/ AuthToken(p)
  \/ AuthTouch(p)
  \/ AuthIsUsernameExists(p)
  \/ AuthCreateUser(p)
  \/ AuthSet(p)
  \/ AuthNewToken(p)

\* ------------------------------------------------------- linkWalletToUser
LinkGet(p) ==
  /\ proc[p].pc = "linkGet"
  /\ IF proc[p].uid \in DOMAIN users
     THEN Goto(p, "linkQuery")
     ELSE Return(p, Thrown(MsgUserNotFound))
  /\ UNCHANGED <<users, authUsers, clock, calls, pre, prev>>

LinkedToAnotherNever(found, uid) == FALSE

\* `!walletQuery.empty` and `existingUser.id !== uid`
LinkedToAnother(found, uid) == found.id # 0 /\ found.id # uid

LinkQuery(p) ==
  /\ proc[p].pc = "linkQuery"
  /\ \E found \in QueryOne(ByWallet(proc[p].walletAddress)) :
       IF LinkedToAnother(found, proc[p].uid)
       THEN Return(p, Thrown(MsgWalletLinked))
       ELSE Goto(p, "linkWrite")
  /\ UNCHANGED <<users, authUsers, clock, calls, pre, prev>>

LinkWriteSkip(p) ==
  /\ proc[p].pc = "linkWrite"
  /\ Return(p, Ok(proc[p].uid, FALSE, NULL, NULL))
  /\ UNCHANGED <<users, authUsers, clock, calls, pre, prev>>

\* `userRef.update({walletAddress, walletLinkedAt, lastActive})`
LinkWrite(p) ==
  /\ proc[p].pc = "linkWrite"
  /\ LET uid == proc[p].uid IN
     IF uid \in DOMAIN users
     THEN /\ users' = [users EXCEPT
                         ![uid].walletAddress = proc[p].walletAddress,
                         ![uid].walletLinkedAt = clock,
                         ![uid].lastActive = clock]
          /\ Return(p, Ok(uid, FALSE, NULL, NULL))
     ELSE /\ users' = users
          /\ Return(p, Thrown(MsgNoDocument))
  /\ UNCHANGED <<authUsers, clock, calls, pre, prev>>

linkWalletToUser(p) == LinkGet(p) \/ LinkQuery(p) \/ LinkWrite(p)

\* --------------------------------------------------------- updateUsername
RenameCheckRetry(p) ==
  /\ proc[p].pc = "renameCheck"
  /\ IF isUsernameExists(proc[p].username)
     THEN Goto(p, "renameCheck")
     ELSE Goto(p, "renameWrite")
  /\ UNCHANGED <<users, authUsers, clock, calls, pre, prev>>

\* `if (await isUsernameExists(username)) throw ...`
RenameCheck(p) ==
  /\ proc[p].pc = "renameCheck"
  /\ IF isUsernameExists(proc[p].username)
     THEN Return(p, Thrown(MsgTaken))
     ELSE Goto(p, "renameWrite")
  /\ UNCHANGED <<users, authUsers, clock, calls, pre, prev>>

RenameWriteNameOnly(p) ==
  /\ proc[p].pc = "renameWrite"
  /\ LET uid == proc[p].uid IN
     IF uid \in DOMAIN users
     THEN /\ users' = [users EXCEPT ![uid].username = proc[p].username]
          /\ Return(p, Ok(uid, FALSE, proc[p].username, NULL))
     ELSE /\ users' = users
          /\ Return(p, Thrown(MsgNoDocument))
  /\ UNCHANGED <<authUsers, clock, calls, pre, prev>>

\* `doc(uid).update({username, lastActive})`, which fails when there is no
\* such document
RenameWrite(p) ==
  /\ proc[p].pc = "renameWrite"
  /\ LET uid == proc[p].uid IN
     IF uid \in DOMAIN users
     THEN /\ users' = [users EXCEPT ![uid].username = proc[p].username,
                                    ![uid].lastActive = clock]
          /\ Return(p, Ok(uid, FALSE, proc[p].username, NULL))
     ELSE /\ users' = users
          /\ Return(p, Thrown(MsgNoDocument))
  /\ UNCHANGED <<authUsers, clock, calls, pre, prev>>

updateUsername(p) == RenameCheck(p) \/ RenameWrite(p)

\* ------------------------------------------------------------- call entry
\* a call of one of the three exported operations, up to its first await
BeginUnguarded(op, walletAddress, username, uid) ==
  [IdleProc EXCEPT
     !.op = op, !.walletAddress = walletAddress, !.username = username,
     !.uid = uid,
     !.pc = CASE op = "authenticate" -> AuthEntry(walletAddress, username)
              [] op = "linkWallet" -> "linkGet"
              [] op = "rename" -> "renameCheck"]

\* a direct call of one of the three operations, up to its first await;
\* updateUsername throws at once when the username is missing
Begin(op, walletAddress, username, uid) ==
  IF op = "rename" /\ username = NULL
  THEN Finish([IdleProc EXCEPT !.op = op, !.uid = uid], Thrown(MsgRequired))
  ELSE [IdleProc EXCEPT
          !.op = op, !.walletAddress = walletAddress, !.username = username,
          !.uid = uid,
          !.pc = CASE op = "authenticate" -> AuthEntry(walletAddress, username)
                   [] op = "linkWallet" -> "linkGet"
                   [] op = "rename" -> "renameCheck"]

CallInputs ==
  {Begin("authenticate", w, u, 0) : w \in OptWallets, u \in OptUsernames}
  \cup {Begin("linkWallet", w, NULL, uid) : w \in Wallets, uid \in Uids}
  \cup {Begin("rename", NULL, u, uid) : u \in OptUsernames, uid \in Uids}

\* the record kept of the call that has just ended
Ended == [call |-> proc[1], pre |-> pre]

NoPrev == [call |-> IdleProc, pre |-> <<>>]

\* one more call starts at the next tick of the server clock
Launch(c) ==
  /\ proc' = [p \in Procs |-> IF p = 1 THEN c ELSE IdleProc]
  /\ calls' = calls + 1
  /\ clock' = clock + 1
  /\ pre' = users
  /\ prev' = Ended
  /\ UNCHANGED <<users, authUsers>>

\* calls run one at a time: the next one starts when the last has returned
Call ==
  /\ \A p \in Procs : ~Running(p)
  /\ calls < MaxCalls
  /\ \E c \in CallInputs : Launch(c)

Step(p) == unifiedWalletAuth(p) \/ linkWalletToUser(p) \/ updateUsername(p)

\* ------------------------------------------------------------ HTTP routes
\* a route answers without calling (or before calling) the operation
Reply(c, res) == [c EXCEPT !.pc = "done", !.res = res]

\* router.post("/authenticate"): with a wallet and a username the route first
\* looks the wallet up itself and refuses a username that is not the stored one
RouteAuthGetUserByWallet(p) ==
  /\ proc[p].pc = "routeAuthGetUserByWallet"
  /\ \E found \in getUserByWallet(proc[p].walletAddress) :
       IF found.id # 0 /\ found.username # proc[p].username
       THEN proc' = [proc EXCEPT
                       ![p] = Reply(proc[p],
                                    Failure(400, "WALLET_LINKED_TO_DIFFERENT_USERNAME"))]
       ELSE Goto(p, AuthEntry(proc[p].walletAddress, proc[p].username))
  /\ UNCHANGED <<users, authUsers, clock, calls, pre, prev>>

\* router.post("/wallet/link"): the new wallet must not be another account's
RouteLinkGetUserByWallet(p) ==
  /\ proc[p].pc = "routeLinkGetUserByWallet"
  /\ \E found \in getUserByWallet(proc[p].walletAddress) :
       IF found.id # 0 /\ found.id # proc[p].uid
       THEN proc' = [proc EXCEPT
                       ![p] = Reply(proc[p], Failure(400, "WALLET_ALREADY_LINKED"))]
       ELSE Goto(p, "routeLinkGetUserById")
  /\ UNCHANGED <<users, authUsers, clock, calls, pre, prev>>

WalletMismatchNever(currentUser, currentWalletAddress) == FALSE

\* `currentUser.walletAddress && currentUser.walletAddress !== currentWalletAddress`
WalletMismatch(currentUser, currentWalletAddress) ==
  /\ currentUser.walletAddress # NULL
  /\ currentUser.walletAddress # currentWalletAddress

\* router.post("/wallet/link"): the account must exist and, when it has a
\* wallet, the request must name it in currentWalletAddress
RouteLinkGetUserById(p) ==
  /\ proc[p].pc = "routeLinkGetUserById"
  /\ LET currentUser == getUserById(proc[p].uid) IN
     IF currentUser.id = 0
     THEN proc' = [proc EXCEPT
                     ![p] = Reply(proc[p], Failure(404, "USER_NOT_FOUND"))]
     ELSE IF WalletMismatch(currentUser, proc[p].currentWalletAddress)
     THEN proc' = [proc EXCEPT
                     ![p] = Reply(proc[p], Failure(400, "WALLET_MISMATCH"))]
     ELSE Goto(p, "linkGet")
  /\ UNCHANGED <<users, authUsers, clock, calls, pre, prev>>

\* router.post("/wallet/connect"): the route looks the wallet up itself and,
\* when the account found has another username than the requested one, calls
\* unifiedWalletAuth(walletAddress, null) instead of passing the username on
RouteConnectGetUserByWallet(p) ==
  /\ proc[p].pc = "routeConnectGetUserByWallet"
  /\ \E found \in getUserByWallet(proc[p].walletAddress) :
       LET username == IF UsernameDiffers(found, proc[p].requestedUsername)
                       THEN NULL
                       ELSE proc[p].requestedUsername
       IN proc' = [proc EXCEPT
                     ![p].routeUser = found,
                     ![p].op = "authenticate",
                     ![p].username = username,
                     ![p].pc = AuthEntry(proc[p].walletAddress, username)]
  /\ UNCHANGED <<users, authUsers, clock, calls, pre, prev>>

RouteStep(p) ==
  \/ RouteAuthGetUserByWallet(p)
  \/ RouteConnectGetUserByWallet(p)
  \/ RouteLinkGetUserByWallet(p)
  \/ RouteLinkGetUserById(p)

\* a request to one of the routes, up to its first await
BeginAuthenticate(walletAddress, username) ==
  [IdleProc EXCEPT
     !.op = "authenticate", !.route = "/authenticate",
     !.walletAddress = walletAddress, !.username = username,
     !.pc = IF walletAddress # NULL /\ username # NULL
            THEN "routeAuthGetUserByWallet"
            ELSE AuthEntry(walletAddress, username)]

\* router.post("/anonymous") forwards to unifiedWalletAuth(null, username)
BeginAnonymous(username) ==
  [IdleProc EXCEPT
     !.op = "authenticate", !.route = "/anonymous",
     !.username = username,
     !.pc = AuthEntry(NULL, username)]

\* router.post("/wallet/connect") requires a wallet address
BeginWalletConnect(walletAddress, username) ==
  LET c == [IdleProc EXCEPT
              !.op = "walletConnect", !.route = "/wallet/connect",
              !.walletAddress = walletAddress,
              !.requestedUsername = username]
  IN IF walletAddress = NULL
     THEN Reply(c, Failure(400, NULL))
     ELSE [c EXCEPT !.pc = "routeConnectGetUserByWallet"]

BeginWalletLink(walletAddress, uid, currentWalletAddress) ==
  LET c == [IdleProc EXCEPT
              !.op = "linkWallet", !.route = "/wallet/link",
              !.walletAddress = walletAddress, !.uid = uid,
              !.currentWalletAddress = currentWalletAddress]
  IN IF walletAddress = NULL
     THEN Reply(c, Failure(400, NULL))
     ELSE [c EXCEPT !.pc = "routeLinkGetUserByWallet"]

BeginUsername(uid, username) ==
  LET c == [IdleProc EXCEPT
              !.op = "rename", !.route = "/username",
              !.username = username, !.uid = uid]
  IN IF username = NULL
     THEN Reply(c, Failure(400, NULL))
     ELSE [c EXCEPT !.pc = "renameCheck"]

RequestInputs ==
  {BeginAuthenticate(w, u) : w \in OptWallets, u \in OptUsernames}
  \cup {BeginAnonymous(u) : u \in OptUsernames}
  \cup {BeginWalletConnect(w, u) : w \in OptWallets, u \in OptUsernames}
  \cup {BeginWalletLink(w, uid, cwa) :
          w \in OptWallets, uid \in Uids, cwa \in OptWallets}
  \cup {BeginUsername(uid, u) : uid \in Uids, u \in OptUsernames}

\* requests are served one at a time
Request ==
  /\ \A p \in Procs : ~Running(p)
  /\ calls < MaxCalls
  /\ \E c \in RequestInputs : Launch(c)

Init ==
  /\ users = <<>>
  /\ authUsers = 0
  /\ clock = 0
  /\ calls = 0
  /\ pre = <<>>
  /\ prev = NoPrev
  /\ proc = [p \in Procs |-> IdleProc]

Next == Call \/ \E p \in Procs : Step(p)

Spec == Init /\ [][Next]_vars

\* two authenticate calls arrive together: the handlers are async functions,
\* so the second runs while the first waits for the store or the issuer
AuthInputs ==
  {Begin("authenticate", w, u, 0) : w \in OptWallets, u \in OptUsernames}

CallTwo ==
  /\ \A p \in Procs : ~Running(p)
  /\ calls + 2 <= MaxCalls
  /\ \E c1, c2 \in AuthInputs :
       proc' = [p \in Procs |-> IF p = 1 THEN c1 ELSE c2]
  /\ calls' = calls + 2
  /\ clock' = clock + 1
  /\ pre' = users
  /\ prev' = Ended
  /\ UNCHANGED <<users, authUsers>>

NextRace == Call \/ CallTwo \/ \E p \in Procs : Step(p)

SpecRace == Init /\ [][NextRace]_vars

\* two requests to link the same wallet to two accounts arrive together,
\* both as direct calls or both through POST /wallet/link
LinkPairs ==
  {<<Begin("linkWallet", w, NULL, uid1), Begin("linkWallet", w, NULL, uid2)>> :
     w \in Wallets, uid1 \in Uids, uid2 \in Uids}
  \cup {<<BeginWalletLink(w, uid1, cwa), BeginWalletLink(w, uid2, cwa)>> :
          w \in Wallets, uid1 \in Uids, uid2 \in Uids, cwa \in OptWallets}

LinkTwo ==
  /\ \A p \in Procs : ~Running(p)
  /\ calls < MaxCalls
  /\ \E pair \in LinkPairs :
       /\ pair[1].uid < pair[2].uid
       /\ proc' = [p \in Procs |-> pair[p]]
  /\ calls' = calls + 1
  /\ clock' = clock + 1
  /\ pre' = users
  /\ prev' = Ended
  /\ UNCHANGED <<users, authUsers>>

NextLinkRace ==
  \/ Call
  \/ LinkTwo
  \/ \E p \in Procs :
       \/ Step(p)
       \/ RouteLinkGetUserByWallet(p)
       \/ RouteLinkGetUserById(p)

SpecLinkRace == Init /\ [][NextLinkRace]_vars

\* direct calls of the two guard lookups
BeginGuard(op, x) ==
  [IdleProc EXCEPT
     !.op = op,
     !.pc = IF op = "isUsernameExists" THEN "usernameGuard" ELSE "walletGuard",
     !.username = IF op = "isUsernameExists" THEN x ELSE NULL,
     !.walletAddress = IF op = "isWalletExists" THEN x ELSE NULL]

GuardInputs ==
  {BeginGuard("isUsernameExists", u) : u \in OptUsernames}
  \cup {BeginGuard("isWalletExists", w) : w \in OptWallets}

GuardCall ==
  /\ \A p \in Procs : ~Running(p)
  /\ calls < MaxCalls
  /\ \E c \in GuardInputs : Launch(c)

UsernameGuard(p) ==
  /\ proc[p].pc = "usernameGuard"
  /\ Return(p, Answer(isUsernameExists(proc[p].username)))
  /\ UNCHANGED <<users, authUsers, clock, calls, pre, prev>>

WalletGuard(p) ==
  /\ proc[p].pc = "walletGuard"
  /\ Return(p, Answer(isWalletExists(proc[p].walletAddress)))
  /\ UNCHANGED <<users, authUsers, clock, calls, pre, prev>>

NextGuards ==
  \/ Call
  \/ GuardCall
  \/ \E p \in Procs : Step(p) \/ UsernameGuard(p) \/ WalletGuard(p)

SpecGuards == Init /\ [][NextGuards]_vars

\* the awaits of unifiedWalletAuth: each is a request to the store or to the
\* issuer, and each can reject; the error propagates out of the function
AuthAwaits ==
  {"getUserByWallet", "walletToken", "walletTouch", "getUserByUsername",
   "linkUpdate", "refresh", "token", "touch", "isUsernameExists",
   "createUser", "set", "newToken"}

\* a request fails without having taken effect
AuthFail(p) ==
  /\ proc[p].op = "authenticate"
  /\ proc[p].pc \in AuthAwaits
  /\ Return(p, Thrown(MsgUnavailable))
  /\ UNCHANGED <<users, authUsers, clock, calls, pre, prev>>

\* a write times out after the store has applied it
AuthFailApplied(p) ==
  /\ proc[p].op = "authenticate"
  /\ LET userId == proc[p].userId IN
     \/ /\ proc[p].pc \in {"walletTouch", "touch"}
        /\ userId \in DOMAIN users
        /\ users' = [users EXCEPT ![userId].lastActive = clock]
     \/ /\ proc[p].pc = "linkUpdate"
        /\ userId \in DOMAIN users
        /\ users' = [users EXCEPT
                       ![userId].walletAddress = proc[p].walletAddress,
                       ![userId].isAnonymous = FALSE,
                       ![userId].lastActive = clock,
                       ![userId].walletLinkedAt = clock]
     \/ /\ proc[p].pc = "set"
        /\ users' = [id \in DOMAIN users \cup {userId} |->
                       IF id = userId
                       THEN NewUserData(proc[p].walletAddress, proc[p].username)
                       ELSE users[id]]
  /\ Return(p, Thrown(MsgUnavailable))
  /\ UNCHANGED <<authUsers, clock, calls, pre, prev>>

NextFail ==
  \/ Call
  \/ \E p \in Procs : Step(p) \/ AuthFail(p) \/ AuthFailApplied(p)

SpecFail == Init /\ [][NextFail]_vars

\* two calls that want the same username arrive together: two renames of
\* different accounts, or a rename and an authenticate(null, n)
RenamePairs ==
  {pair \in {<<Begin("rename", NULL, n, uid1), Begin("rename", NULL, n, uid2)>> :
               n \in Usernames, uid1 \in Uids, uid2 \in Uids} :
     pair[1].uid # pair[2].uid}
  \cup {<<Begin("rename", NULL, n, uid1), Begin("authenticate", NULL, n, 0)>> :
          n \in Usernames, uid1 \in Uids}

RenameTwo ==
  /\ \A p \in Procs : ~Running(p)
  /\ calls < MaxCalls
  /\ \E pair \in RenamePairs : proc' = [p \in Procs |-> pair[p]]
  /\ calls' = calls + 1
  /\ clock' = clock + 1
  /\ pre' = users
  /\ prev' = Ended
  /\ UNCHANGED <<users, authUsers>>

NextRenameRace == Call \/ RenameTwo \/ \E p \in Procs : Step(p)

SpecRenameRace == Init /\ [][NextRenameRace]_vars

\* calls run one at a time and every request a call issues to the store or
\* to the issuer is eventually answered, with a result or with a failure; a
\* call starts only while the issuer can still hand out a uid
CallAnswered == authUsers < MaxUsers /\ Call

Answer1(p) == Step(p) \/ AuthFail(p) \/ AuthFailApplied(p)

NextAnswered == CallAnswered \/ \E p \in Procs : Answer1(p)

SpecAnswered ==
  Init /\ [][NextAnswered]_vars /\ WF_vars(\E p \in Procs : Answer1(p))

\* the operations called directly and through their routes
NextRoutes == Call \/ Request \/ \E p \in Procs : Step(p) \/ RouteStep(p)

SpecRoutes == Init /\ [][NextRoutes]_vars

\* ------------------------------------------------------------- properties
\* the call in progress or just ended, when calls run one at a time
cur == proc[1]

Ended1(op) == cur.pc = "done" /\ cur.op = op

\* accounts of a collection s that hold wallet w, resp. username u
WithWallet(s, w) == {id \in DOMAIN s : s[id].walletAddress = w}
WithUsername(s, u) == {id \in DOMAIN s : s[id].username = u}

\* C1: when authenticate, linkWallet and rename calls run one after another,
\* no two accounts ever hold the same non-null username.
UsernameUnique ==
  \A i, j \in DOMAIN users :
    (i # j /\ users[i].username # NULL) => users[i].username # users[j].username

\* two accounts with usernames exist and a rename to a held name was refused
UsernameUniqueWitness ==
  /\ Ended1("rename") /\ cur.ret.message = MsgTaken
  /\ Cardinality({id \in DOMAIN users : users[id].username # NULL}) = 2

\* C2: when authenticate, linkWallet and rename calls run one after another,
\* no two accounts ever hold the same non-null walletAddress.
WalletUnique ==
  \A i, j \in DOMAIN users :
    (i # j /\ users[i].walletAddress # NULL)
      => users[i].walletAddress # users[j].walletAddress

\* two accounts with wallets exist and a linkWallet to a held wallet was refused
WalletUniqueWitness ==
  /\ Ended1("linkWallet") /\ cur.ret.message = MsgWalletLinked
  /\ Cardinality({id \in DOMAIN users : users[id].walletAddress # NULL}) = 2

\* C6: linkWallet(uid, w2) on an account whose walletAddress is already
\* w1 # w2 never changes that walletAddress, whether linkWalletToUser is
\* called directly or through POST /wallet/link with any currentWalletAddress.
LinkKeepsBoundWallet ==
  cur.op = "linkWallet" =>
    \A id \in DOMAIN pre :
      (cur.uid = id /\ pre[id].walletAddress \notin {NULL, cur.walletAddress})
        => users[id].walletAddress = pre[id].walletAddress

\* C7: an authenticate call never changes or clears the walletAddress of an
\* account that had one before the call, whatever its arguments or outcome.
AuthKeepsBoundWallet ==
  cur.op = "authenticate" =>
    \A id \in DOMAIN pre :
      pre[id].walletAddress # NULL =>
        /\ id \in DOMAIN users
        /\ users[id].walletAddress = pre[id].walletAddress

\* authenticate(w2, u) ended where u named an account already bound to w1
AuthKeepsBoundWalletWitness ==
  /\ Ended1("authenticate")
  /\ cur.walletAddress # NULL
  /\ \E id \in WithUsername(pre, cur.username) :
       pre[id].walletAddress \notin {NULL, cur.walletAddress}

\* the second of two authenticate calls with the same arguments has ended,
\* and the wallet was bound before the first
TwiceSameArgs ==
  /\ Ended1("authenticate")
  /\ prev.call.op = "authenticate"
  /\ cur.walletAddress # NULL
  /\ prev.call.walletAddress = cur.walletAddress
  /\ prev.call.username = cur.username
  /\ WithWallet(prev.pre, cur.walletAddress) # {}

\* C8: when wallet w is bound to an account, two consecutive
\* authenticate(w, u) calls both succeed with the same uid and
\* isNewUser = false, create no account and leave every walletAddress as it was.
WalletLoginIdempotent ==
  TwiceSameArgs =>
    /\ cur.ret.kind = "ok" /\ prev.call.ret.kind = "ok"
    /\ cur.ret.uid = prev.call.ret.uid
    /\ ~cur.ret.isNewUser /\ ~prev.call.ret.isNewUser
    /\ DOMAIN users = DOMAIN prev.pre
    /\ \A id \in DOMAIN users :
         users[id].walletAddress = prev.pre[id].walletAddress

\* the pair of calls has run, with a username that is not the stored one
WalletLoginIdempotentWitness ==
  /\ TwiceSameArgs
  /\ cur.username # NULL
  /\ cur.username # users[cur.ret.uid].username

\* authenticate(w, u) has ended, w was bound to an account not named u
WalletBoundOtherName ==
  /\ Ended1("authenticate")
  /\ cur.walletAddress # NULL /\ cur.username # NULL
  /\ \E id \in WithWallet(pre, cur.walletAddress) :
       pre[id].username # cur.username

\* C9: authenticate(w, u) with w bound to an account whose stored username
\* is not u succeeds and returns the stored username; no authenticate call
\* changes the username of an existing account.
AuthNeverRenames ==
  /\ cur.op = "authenticate" =>
       \A id \in DOMAIN pre :
         id \in DOMAIN users /\ users[id].username = pre[id].username
  /\ WalletBoundOtherName =>
       /\ cur.ret.kind = "ok"
       /\ \A id \in WithWallet(pre, cur.walletAddress) :
            cur.ret.uid = id /\ cur.ret.username = pre[id].username
       /\ cur.ret.username # cur.username

\* the stored username is a real one and differs from the supplied one
AuthNeverRenamesWitness ==
  /\ WalletBoundOtherName
  /\ cur.ret.username # NULL

\* authenticate(w2, u) has ended, u named an account bound to another
\* wallet and w2 was bound to no account
NameBoundElsewhere ==
  /\ Ended1("authenticate")
  /\ cur.walletAddress # NULL /\ cur.username # NULL
  /\ WithWallet(pre, cur.walletAddress) = {}
  /\ \E id \in WithUsername(pre, cur.username) :
       pre[id].walletAddress \notin {NULL, cur.walletAddress}

\* C10: authenticate(w2, u), where u is the username of an account bound to
\* w1 # w2 and w2 is bound to no account, is rejected with the
\* different-wallet conflict, creates no account and changes no field.
DifferentWalletRejected ==
  NameBoundElsewhere =>
    /\ cur.ret.kind = "error"
    /\ cur.ret.message = MsgDifferentWallet
    /\ cur.route = "/authenticate" =>
         cur.res = Failure(400, "USERNAME_HAS_DIFFERENT_WALLET")
    /\ users = pre
    /\ authUsers = Cardinality(DOMAIN pre)

\* the conflict was raised for a request to POST /authenticate
DifferentWalletRejectedWitness ==
  /\ NameBoundElsewhere
  /\ cur.route = "/authenticate"
  /\ cur.res.status = 400

\* authenticate(w, u) has ended; before it no account held w and none held u
NoMatch ==
  /\ Ended1("authenticate")
  /\ cur.walletAddress # NULL => WithWallet(pre, cur.walletAddress) = {}
  /\ cur.username # NULL => WithUsername(pre, cur.username) = {}

\* C11: an authenticate call that matches no account by wallet or username
\* inserts exactly one account holding the supplied wallet and username, with
\* isAnonymous = (no wallet) and walletLinkedAt set iff a wallet was supplied,
\* and returns isNewUser = true, authType "wallet" iff a wallet was supplied.
CreatesOneAccount ==
  NoMatch =>
    /\ cur.ret.kind = "ok" /\ cur.ret.isNewUser
    /\ cur.ret.uid \notin DOMAIN pre
    /\ DOMAIN users = DOMAIN pre \cup {cur.ret.uid}
    /\ \A id \in DOMAIN pre : users[id] = pre[id]
    /\ users[cur.ret.uid].walletAddress = cur.walletAddress
    /\ users[cur.ret.uid].username = cur.username
    /\ users[cur.ret.uid].isAnonymous = (cur.walletAddress = NULL)
    /\ (users[cur.ret.uid].walletLinkedAt # 0) = (cur.walletAddress # NULL)
    /\ cur.ret.username = cur.username
    /\ cur.ret.authType =
         (IF cur.walletAddress # NULL THEN "wallet" ELSE "anonymous")

\* a second account was created, this one with a wallet and a username
CreatesOneAccountWitness ==
  /\ NoMatch
  /\ cur.walletAddress # NULL /\ cur.username # NULL
  /\ DOMAIN pre # {}

\* rename(uid1, n) has ended and an account other than uid1 held n before it
NameHeldByAnother ==
  /\ Ended1("rename")
  /\ cur.username # NULL
  /\ WithUsername(pre, cur.username) \ {cur.uid} # {}

\* C12: rename(uid1, n), when an account other than uid1 already has username
\* n, fails with USERNAME_ALREADY_EXISTS and leaves every field of every
\* account, uid1's username included, unchanged.
RenameCollisionRejected ==
  NameHeldByAnother =>
    /\ cur.ret.kind = "error"
    /\ cur.ret.message = MsgTaken
    /\ cur.route = "/username" =>
         cur.res = Failure(400, "USERNAME_ALREADY_EXISTS")
    /\ users = pre

\* the refused rename came through POST /username for an existing account
\* that had another username
RenameCollisionRejectedWitness ==
  /\ NameHeldByAnother
  /\ cur.route = "/username"
  /\ cur.uid \in DOMAIN pre
  /\ pre[cur.uid].username # NULL

\* C13: in every state reached by authenticate, linkWallet and rename calls,
\* every account has isAnonymous = true iff its walletAddress is null; an
\* anonymous account becomes non-anonymous when linkWallet links a wallet.
AnonymousIffNoWallet ==
  \A id \in DOMAIN users :
    users[id].isAnonymous = (users[id].walletAddress = NULL)

\* linkWallet(uid, w) has ended and w was bound to an account other than uid
WalletHeldByAnother ==
  /\ Ended1("linkWallet")
  /\ cur.walletAddress # NULL
  /\ WithWallet(pre, cur.walletAddress) \ {cur.uid} # {}

\* C14: linkWallet(uid, w), when w is bound to an existing account whose id
\* differs from uid, is rejected with the wallet-already-linked conflict and
\* leaves the whole store unchanged.
LinkedWalletRejected ==
  WalletHeldByAnother =>
    /\ IF cur.route = "/wallet/link"
       THEN cur.res = Failure(400, "WALLET_ALREADY_LINKED")
       ELSE cur.ret.kind = "error" /\ cur.ret.message = MsgWalletLinked
    /\ users = pre

\* linkWallet(uid, w) has ended and w was already the wallet of account uid
WalletAlreadyOwn ==
  /\ Ended1("linkWallet")
  /\ cur.uid \in DOMAIN pre
  /\ pre[cur.uid].walletAddress = cur.walletAddress

\* C15: linkWallet(uid, w), when w is already bound to the account uid
\* itself, succeeds as a no-op: no field of any account, walletLinkedAt
\* included, is changed.
LinkOwnWalletNoOp ==
  WalletAlreadyOwn => cur.ret.kind = "ok" /\ users = pre

\* C16: walletLinkedAt of an account is set when a wallet is first attached
\* to it (creation with a wallet, the authenticate link step, linkWallet) and
\* never changes under any later authenticate, linkWallet or rename call.
WalletLinkedAtStable ==
  /\ \A id \in DOMAIN users :
       users[id].walletAddress # NULL => users[id].walletLinkedAt # 0
  /\ \A id \in DOMAIN pre :
       pre[id].walletLinkedAt # 0 =>
         users[id].walletLinkedAt = pre[id].walletLinkedAt

\* linkWallet(uid, w) has ended and w was bound to no account before it
LinkUnboundWallet ==
  /\ Ended1("linkWallet")
  /\ cur.walletAddress # NULL
  /\ WithWallet(pre, cur.walletAddress) = {}

\* with a uid that is not in the store the call fails as account-not-found
\* and the store is unchanged
LinkMissingAccount ==
  (LinkUnboundWallet /\ cur.uid \notin DOMAIN pre) =>
    /\ IF cur.route = "/wallet/link"
       THEN cur.res = Failure(404, "USER_NOT_FOUND")
       ELSE cur.ret.kind = "error" /\ cur.ret.message = MsgUserNotFound
    /\ users = pre

\* C17: linkWallet(uid, w) with a uid not in the store and w unbound fails
\* with ACCOUNT_NOT_FOUND and leaves the store unchanged; with an existing
\* wallet-less uid and unbound w it sets walletAddress = w, walletLinkedAt
\* and isAnonymous = false on that account only.
LinkAttachesWallet ==
  /\ LinkMissingAccount
  /\ (/\ LinkUnboundWallet
      /\ cur.uid \in DOMAIN pre
      /\ pre[cur.uid].walletAddress = NULL) =>
       /\ cur.ret.kind = "ok"
       /\ users[cur.uid].walletAddress = cur.walletAddress
       /\ users[cur.uid].walletLinkedAt # 0
       /\ users[cur.uid].isAnonymous = FALSE
       /\ DOMAIN users = DOMAIN pre
       /\ \A id \in DOMAIN pre \ {cur.uid} : users[id] = pre[id]

\* authenticate(w, u) has ended; before it w was bound to no account and u
\* named an account without a wallet
NameOfWalletless ==
  /\ Ended1("authenticate")
  /\ cur.walletAddress # NULL
  /\ cur.username # NULL
  /\ WithWallet(pre, cur.walletAddress) = {}
  /\ \E id \in WithUsername(pre, cur.username) : pre[id].walletAddress = NULL

\* C18: authenticate(w, u) with w unbound and u naming an existing account
\* without a wallet attaches w to that account (walletAddress = w,
\* walletLinkedAt set, isAnonymous = false), creates no new account, and
\* returns that account's uid with isNewUser = false and authType "wallet".
AuthAttachesWallet ==
  NameOfWalletless =>
    \A id \in WithUsername(pre, cur.username) :
      /\ cur.ret.kind = "ok"
      /\ cur.ret.uid = id
      /\ cur.ret.isNewUser = FALSE
      /\ cur.ret.authType = "wallet"
      /\ users[id].walletAddress = cur.walletAddress
      /\ users[id].walletLinkedAt # 0
      /\ users[id].isAnonymous = FALSE
      /\ DOMAIN users = DOMAIN pre
      /\ \A other \in DOMAIN pre \ {id} : users[other] = pre[other]

AuthAttachesWalletWitness ==
  /\ NameOfWalletless
  /\ cur.ret.kind = "ok"
  /\ \E other \in DOMAIN pre : pre[other].username # cur.username

\* authenticate(null, u) has ended and u was the username of an account
NameOnlyLogin ==
  /\ Ended1("authenticate")
  /\ cur.walletAddress = NULL
  /\ cur.username # NULL
  /\ WithUsername(pre, cur.username) # {}

\* C19: authenticate(null, u) with u the username of an existing account
\* (with or without a wallet) logs that account in: it returns its uid with
\* isNewUser = false and authType "anonymous", creates no account, raises no
\* USERNAME_ALREADY_EXISTS error, and changes nothing but that account's
\* lastActive.
NameLoginOnlyTouches ==
  NameOnlyLogin =>
    \A id \in WithUsername(pre, cur.username) :
      /\ cur.ret.kind = "ok"
      /\ cur.ret.uid = id
      /\ cur.ret.isNewUser = FALSE
      /\ cur.ret.authType = "anonymous"
      /\ cur.route \in {"/authenticate", "/anonymous"} =>
           /\ cur.res.status = 200
           /\ cur.res.error = NULL
           /\ cur.res.uid = id
      /\ users = [pre EXCEPT ![id].lastActive = clock]

NameLoginOnlyTouchesWitness ==
  /\ NameOnlyLogin
  /\ cur.route = "/anonymous"
  /\ \E id \in WithUsername(pre, cur.username) :
       /\ pre[id].walletAddress # NULL
       /\ pre[id].lastActive # clock

\* authenticate(w, u) has ended; before it w was bound to one account and u
\* was the username of a different one
WalletOfOneNameOfAnother ==
  /\ Ended1("authenticate")
  /\ cur.walletAddress # NULL
  /\ cur.username # NULL
  /\ \E a \in WithWallet(pre, cur.walletAddress) :
       WithUsername(pre, cur.username) \ {a} # {}

\* C20: wallet-first precedence: authenticate(w, u) with w bound to A and u
\* the username of a different account B returns A's uid and A's username
\* with authType "wallet" and no conflict, and modifies neither account
\* except A's lastActive; the username lookup is consulted only when the
\* wallet lookup finds no account.
WalletFirst ==
  /\ WalletOfOneNameOfAnother =>
       \A a \in WithWallet(pre, cur.walletAddress) :
         /\ cur.ret.kind = "ok"
         /\ cur.ret.uid = a
         /\ cur.ret.username = pre[a].username
         /\ cur.ret.isNewUser = FALSE
         /\ cur.ret.authType = "wallet"
         /\ users = [pre EXCEPT ![a].lastActive = clock]
  /\ (/\ cur.op = "authenticate"
      /\ cur.pc = "getUserByUsername"
      /\ cur.walletAddress # NULL) =>
       WithWallet(pre, cur.walletAddress) = {}

WalletFirstWitness ==
  /\ WalletOfOneNameOfAnother
  /\ cur.ret.kind = "ok"
  /\ \E b \in WithUsername(pre, cur.username) : users[b] = pre[b]

\* POST /authenticate has answered a request whose wallet was bound to an
\* account before it
RouteBoundWallet ==
  /\ Ended1("authenticate")
  /\ cur.route = "/authenticate"
  /\ cur.walletAddress # NULL
  /\ WithWallet(pre, cur.walletAddress) # {}

\* C21: POST /authenticate with a walletAddress already bound to an account
\* logs that account in (success response with its uid and its stored
\* username) whatever username the request carries.
RouteWalletLogsIn ==
  RouteBoundWallet =>
    \A id \in WithWallet(pre, cur.walletAddress) :
      /\ cur.res.status = 200
      /\ cur.res.uid = id
      /\ cur.res.username = pre[id].username
      /\ cur.res.isNewUser = FALSE

\* two collections that differ at most in the lastActive of their accounts
SameButActivity(s, t) ==
  /\ DOMAIN s = DOMAIN t
  /\ \A id \in DOMAIN s : s[id] = [t[id] EXCEPT !.lastActive = s[id].lastActive]

\* the accounts whose lastActive differs between s and t
Touched(s, t) == {id \in DOMAIN s : s[id].lastActive # t[id].lastActive}

\* POST /wallet/connect or POST /anonymous has answered a request that
\* POST /authenticate answered just before, from a store with the same
\* accounts, wallets and usernames
LegacyAfterUnified ==
  /\ cur.pc = "done"
  /\ \/ cur.route = "/wallet/connect" /\ cur.walletAddress # NULL
        /\ prev.call.username = cur.requestedUsername
     \/ cur.route = "/anonymous" /\ prev.call.username = cur.username
  /\ prev.call.route = "/authenticate"
  /\ prev.call.walletAddress = cur.walletAddress
  /\ SameButActivity(prev.pre, pre)

\* C22: POST /wallet/connect (with a walletAddress) and POST /anonymous
\* (without one) yield the same outcome (success or the same conflict, same
\* uid, same isNewUser) and the same store changes as POST /authenticate
\* given the same walletAddress and username.
LegacyAsUnified ==
  LegacyAfterUnified =>
    /\ cur.res.status = prev.call.res.status
    /\ cur.res.error = prev.call.res.error
    /\ cur.res.uid = prev.call.res.uid
    /\ cur.res.isNewUser = prev.call.res.isNewUser
    /\ SameButActivity(pre, users)
    /\ Touched(pre, users) = Touched(prev.pre, pre)

AuthSucceeded == Ended1("authenticate") /\ cur.ret.kind = "ok"

\* C25: every successful authenticate call, on each of its paths (wallet
\* match, username match, username match with wallet link, creation), sets
\* lastActive of the returned account to the time of that call and changes
\* the lastActive of no other account.
AuthTouchesReturned ==
  AuthSucceeded =>
    /\ cur.ret.uid \in DOMAIN users
    /\ users[cur.ret.uid].lastActive = clock
    /\ \A id \in DOMAIN pre \ {cur.ret.uid} :
         users[id].lastActive = pre[id].lastActive

\* a login by username that linked a wallet, with another account present
\* that was last active earlier
AuthTouchesReturnedWitness ==
  /\ AuthSucceeded
  /\ cur.ret.uid \in DOMAIN pre
  /\ pre[cur.ret.uid].walletAddress = NULL
  /\ users[cur.ret.uid].walletAddress # NULL
  /\ pre[cur.ret.uid].lastActive < clock
  /\ \E id \in DOMAIN pre \ {cur.ret.uid} : pre[id].lastActive < clock

\* rename(uid, n) has ended; the account existed and no account held n
RenameToFreeName ==
  /\ Ended1("rename")
  /\ cur.uid \in DOMAIN pre
  /\ cur.username # NULL
  /\ WithUsername(pre, cur.username) = {}

\* C26: rename(uid, n) on an existing account, when no account has username
\* n, sets that account's username to n and updates its lastActive, and
\* changes nothing else.
RenameFrame ==
  RenameToFreeName =>
    /\ cur.ret.kind = "ok"
    /\ users = [pre EXCEPT ![cur.uid].username = cur.username,
                           ![cur.uid].lastActive = clock]

\* the renamed account had a wallet and another name, was last active
\* earlier, and is not the only account
RenameFrameWitness ==
  /\ RenameToFreeName
  /\ pre[cur.uid].walletAddress # NULL
  /\ pre[cur.uid].username # NULL
  /\ pre[cur.uid].lastActive < clock
  /\ DOMAIN pre # {cur.uid}

\* C27: isUsernameExists(x) and isWalletExists(x) return true iff some
\* account's username (resp. walletAddress) equals x, return false for a
\* null or empty x without regard to the store, and never modify the store.
GuardsExact ==
  /\ Ended1("isUsernameExists") =>
       /\ cur.ret.kind \in {"true", "false"}
       /\ (cur.ret.kind = "true") =
            (cur.username # NULL /\ WithUsername(pre, cur.username) # {})
       /\ users = pre
  /\ Ended1("isWalletExists") =>
       /\ cur.ret.kind \in {"true", "false"}
       /\ (cur.ret.kind = "true") =
            (cur.walletAddress # NULL /\ WithWallet(pre, cur.walletAddress) # {})
       /\ users = pre

\* isWalletExists was asked about no wallet while the store held an account
\* without one and an account with one
GuardsExactWitness ==
  /\ Ended1("isWalletExists")
  /\ cur.walletAddress = NULL
  /\ WithWallet(pre, NULL) # {}
  /\ \E w \in Wallets : WithWallet(pre, w) # {}

\* authenticate(null, null) has ended
AuthNoInputs ==
  /\ Ended1("authenticate")
  /\ cur.walletAddress = NULL
  /\ cur.username = NULL

\* C28: authenticate(null, null) never fails with a conflict and never
\* matches an existing account: every such call inserts a fresh account with
\* no username and no wallet (isAnonymous = true) and returns a uid different
\* from every uid returned before, with isNewUser = true and authType
\* "anonymous".
NoInputsCreates ==
  AuthNoInputs =>
    /\ cur.ret.kind = "ok"
    /\ cur.ret.isNewUser
    /\ cur.ret.authType = "anonymous"
    /\ cur.ret.uid \notin DOMAIN pre
    /\ prev.call.ret.kind = "ok" => cur.ret.uid # prev.call.ret.uid
    /\ DOMAIN users = DOMAIN pre \cup {cur.ret.uid}
    /\ \A id \in DOMAIN pre : users[id] = pre[id]
    /\ users[cur.ret.uid].username = NULL
    /\ users[cur.ret.uid].walletAddress = NULL
    /\ users[cur.ret.uid].isAnonymous

\* the second of two authenticate(null, null) calls in a row has ended
NoInputsCreatesWitness ==
  /\ AuthNoInputs
  /\ prev.call.op = "authenticate"
  /\ prev.call.walletAddress = NULL
  /\ prev.call.username = NULL
  /\ prev.call.ret.kind = "ok"
  /\ WithUsername(pre, NULL) # {}

\* an authenticate call has ended, re-issued with the arguments of an
\* authenticate call that had aborted on a failed request just before
Retried ==
  /\ Ended1("authenticate")
  /\ prev.call.op = "authenticate"
  /\ prev.call.ret.kind = "error"
  /\ prev.call.ret.message = MsgUnavailable
  /\ prev.call.walletAddress = cur.walletAddress
  /\ prev.call.username = cur.username

\* after the retry at most one account holds the supplied wallet and at most
\* one the supplied username
RetryUnique ==
  Retried =>
    /\ cur.walletAddress # NULL =>
         Cardinality(WithWallet(users, cur.walletAddress)) <= 1
    /\ cur.username # NULL =>
         Cardinality(WithUsername(users, cur.username)) <= 1

\* C29: if an authenticate call aborts because one of its store or issuer
\* steps fails, it performs no further store writes in that call, and
\* re-issuing the same call afterwards leaves a store in which at most one
\* account holds the supplied walletAddress and at most one holds the
\* supplied username.
RetrySafe ==
  /\ []RetryUnique
  /\ [][(/\ cur.op = "authenticate"
          /\ cur.ret.kind = "error"
          /\ cur.ret.message = MsgUnavailable) => users' = users]_vars

\* the aborted call had already stored the new account when its request for
\* a token failed, and the retry succeeded
RetrySafeWitness ==
  /\ Retried
  /\ cur.walletAddress # NULL
  /\ WithWallet(prev.pre, cur.walletAddress) = {}
  /\ WithWallet(pre, cur.walletAddress) # {}
  /\ cur.ret.kind = "ok"

\* rename(uid, n) has ended; no account had that uid and none held n
RenameMissingAccount ==
  /\ Ended1("rename")
  /\ cur.uid \notin DOMAIN pre
  /\ cur.username # NULL
  /\ WithUsername(pre, cur.username) = {}

\* C30: rename(uid, n) with a uid that is not in the store (and n held by no
\* account) is reported as ACCOUNT_NOT_FOUND, not as success and not as an
\* untyped generic failure, and creates no account and leaves the store
\* unchanged.
RenameMissingReported ==
  RenameMissingAccount =>
    /\ cur.ret.kind = "error"
    /\ cur.ret.message = MsgUserNotFound
    /\ cur.route = "/username" => cur.res = Failure(404, "USER_NOT_FOUND")
    /\ users = pre

\* rename(uid, n) has ended and n was already the username of account uid
RenameToOwnName ==
  /\ Ended1("rename")
  /\ cur.username # NULL
  /\ cur.uid \in DOMAIN pre
  /\ pre[cur.uid].username = cur.username

\* C31: a username is taken only when it is bound to a different account
\* than the one operated on: rename(uid, n) where n is already the username
\* of account uid itself is not rejected with USERNAME_ALREADY_EXISTS.
OwnNameNotTaken ==
  RenameToOwnName =>
    /\ ~(cur.ret.kind = "error" /\ cur.ret.message = MsgTaken)
    /\ cur.res.error # "USERNAME_ALREADY_EXISTS"

\* linkWallet(uid, w) has ended; w was bound to an account and no account
\* had that uid
LinkBoundWalletMissingAccount ==
  /\ Ended1("linkWallet")
  /\ cur.walletAddress # NULL
  /\ WithWallet(pre, cur.walletAddress) # {}
  /\ cur.uid \notin DOMAIN pre

\* C32: in linkWallet the wallet lookup precedes the account lookup:
\* linkWallet(uid, w) with w bound to some account and uid not in the store
\* is rejected as wallet-already-linked rather than account-not-found, both
\* in linkWalletToUser and in POST /wallet/link.
WalletLookupFirst ==
  LinkBoundWalletMissingAccount =>
    IF cur.route = "/wallet/link"
    THEN cur.res = Failure(400, "WALLET_ALREADY_LINKED")
    ELSE cur.ret.kind = "error" /\ cur.ret.message = MsgWalletLinked

ResultMatchesAccount ==
  AuthSucceeded =>
    /\ cur.ret.uid \in DOMAIN users
    /\ cur.walletAddress # NULL =>
         /\ users[cur.ret.uid].walletAddress = cur.walletAddress
         /\ cur.ret.authType = "wallet"
    /\ (cur.walletAddress = NULL /\ cur.username # NULL) =>
         /\ users[cur.ret.uid].username = cur.username
         /\ cur.ret.authType = "anonymous"
    /\ cur.ret.username = users[cur.ret.uid].username

\* a wallet login of an account stored under another name than the supplied
\* one, with a second account in the store
ResultMatchesAccountWitness ==
  /\ AuthSucceeded
  /\ cur.walletAddress # NULL
  /\ cur.username # NULL
  /\ cur.ret.username # cur.username
  /\ Cardinality(DOMAIN users) > 1

\* C36: a credential is minted only for the account the call resolves to:
\* every successful authenticate mints exactly one credential, for the uid
\* it returns, and an authenticate call that ends in a conflict mints none.
OneCredential ==
  Ended1("authenticate") =>
    /\ cur.ret.kind = "ok" => cur.token = <<cur.ret.uid>>
    /\ (/\ cur.ret.kind = "error"
        /\ cur.ret.message \in {MsgDifferentWallet, MsgTaken}) => cur.token = <<>>

\* a login of an existing account right after a call refused with the
\* different-wallet conflict
OneCredentialWitness ==
  /\ AuthSucceeded
  /\ ~cur.ret.isNewUser
  /\ prev.call.op = "authenticate"
  /\ prev.call.ret.kind = "error"
  /\ prev.call.ret.message = MsgDifferentWallet
  /\ prev.call.token = <<>>

\* POST /wallet/link has answered a request that names a wallet, for an
\* account that already had one
RouteLinkOnBound ==
  /\ Ended1("linkWallet")
  /\ cur.route = "/wallet/link"
  /\ cur.walletAddress # NULL
  /\ cur.uid \in DOMAIN pre
  /\ pre[cur.uid].walletAddress # NULL

\* the request did not name the account's stored wallet as its current one
RouteLinkWrongCurrent ==
  /\ RouteLinkOnBound
  /\ cur.currentWalletAddress # pre[cur.uid].walletAddress

\* the stored wallet of an account is replaced through the route only by a
\* request whose currentWalletAddress equals it
ReplacedOnlyWithCurrent ==
  (RouteLinkOnBound /\ users[cur.uid].walletAddress # pre[cur.uid].walletAddress)
    => cur.currentWalletAddress = pre[cur.uid].walletAddress

\* C38 as claimed: POST /wallet/link on an account that already has a wallet
\* is rejected with WALLET_MISMATCH, leaving the store unchanged, whenever
\* the request's currentWalletAddress is absent or differs from the stored
\* walletAddress; the stored wallet is replaced only by a request whose
\* currentWalletAddress equals it.
MismatchRejected ==
  /\ RouteLinkWrongCurrent =>
       /\ cur.res = Failure(400, "WALLET_MISMATCH")
       /\ users = pre
  /\ ReplacedOnlyWithCurrent

\* C38 as amended: such a request is rejected, leaving the store unchanged,
\* with WALLET_ALREADY_LINKED when the requested wallet is bound to another
\* account and with WALLET_MISMATCH otherwise; the stored wallet is replaced
\* only by a request whose currentWalletAddress equals it.
MismatchOrLinkedRejected ==
  /\ RouteLinkWrongCurrent =>
       /\ cur.res =
            IF WithWallet(pre, cur.walletAddress) \ {cur.uid} # {}
            THEN Failure(400, "WALLET_ALREADY_LINKED")
            ELSE Failure(400, "WALLET_MISMATCH")
       /\ users = pre
  /\ ReplacedOnlyWithCurrent

\* the requested wallet was another account's and the request was refused
\* for that reason
MismatchOrLinkedRejectedWitness ==
  /\ RouteLinkWrongCurrent
  /\ WithWallet(pre, cur.walletAddress) \ {cur.uid} # {}
  /\ cur.res.error = "WALLET_ALREADY_LINKED"

\* position of a statement within its operation
Rank(pc) ==
  CASE pc = "idle" -> 0
    [] pc \in {"getUserByWallet", "linkGet", "renameCheck"} -> 1
    [] pc \in {"walletToken", "linkQuery", "renameWrite"} -> 2
    [] pc \in {"walletTouch", "linkWrite"} -> 3
    [] pc = "getUserByUsername" -> 4
    [] pc = "linkUpdate" -> 5
    [] pc = "refresh" -> 6
    [] pc = "token" -> 7
    [] pc = "touch" -> 8
    [] pc = "isUsernameExists" -> 9
    [] pc = "createUser" -> 10
    [] pc = "set" -> 11
    [] pc = "newToken" -> 12
    [] OTHER -> 13

\* C39: every authenticate, linkWallet and rename call terminates: provided
\* each store and issuer request it issues is eventually answered, the call
\* eventually returns a result or an error after a bounded number of store
\* steps, with no internal loop or retry.
Terminates ==
  /\ Running(1) ~> (cur.pc = "done" /\ cur.ret.kind \in {"ok", "error"})
  /\ [][calls' = calls => Rank(cur'.pc) > Rank(cur.pc)]_vars

\* a rename has returned right after a linkWallet call that had returned
TerminatesWitness ==
  /\ Ended1("rename")
  /\ cur.ret.kind = "ok"
  /\ prev.call.op = "linkWallet"
  /\ prev.call.pc = "done"
  /\ prev.call.ret.kind = "ok"

\* ------------------------------------------------- properties of races
\* two authenticate calls that started together
Both == proc[2].op = "authenticate"

BothEnded == Both /\ proc[1].pc = "done" /\ proc[2].pc = "done"

\* both authenticate(null, u) calls have ended, u was held by no account
SameNewUsername ==
  /\ BothEnded
  /\ proc[1].walletAddress = NULL /\ proc[2].walletAddress = NULL
  /\ proc[1].username # NULL /\ proc[2].username = proc[1].username
  /\ WithUsername(pre, proc[1].username) = {}

\* C3: two concurrent authenticate(null, u) calls on a store where no
\* account has username u leave at most one account with username u.
NoDuplicateUsernameRace ==
  SameNewUsername => Cardinality(WithUsername(users, proc[1].username)) <= 1

\* both authenticate(w, null) calls have ended, w was held by no account
SameNewWallet ==
  /\ BothEnded
  /\ proc[1].username = NULL /\ proc[2].username = NULL
  /\ proc[1].walletAddress # NULL
  /\ proc[2].walletAddress = proc[1].walletAddress
  /\ WithWallet(pre, proc[1].walletAddress) = {}

\* C4: two concurrent authenticate(w, null) calls on a store where no
\* account has walletAddress w leave at most one account with walletAddress w.
NoDuplicateWalletRace ==
  SameNewWallet => Cardinality(WithWallet(users, proc[1].walletAddress)) <= 1

\* authenticate(w1, u) and authenticate(w2, u) started together, w1 # w2
\* unbound, u naming an account without a wallet
TwoWalletsOneName ==
  /\ Both
  /\ proc[1].walletAddress # NULL /\ proc[2].walletAddress # NULL
  /\ proc[1].walletAddress # proc[2].walletAddress
  /\ proc[1].username # NULL /\ proc[2].username = proc[1].username
  /\ WithWallet(pre, proc[1].walletAddress) = {}
  /\ WithWallet(pre, proc[2].walletAddress) = {}
  /\ \E id \in WithUsername(pre, proc[1].username) :
       pre[id].walletAddress = NULL

\* C5: for concurrent authenticate(w1, u) and authenticate(w2, u), w1 # w2
\* both unbound, u naming an account without a wallet, the wallet first
\* written to that account is never replaced by the other call's wallet.
FirstBindingKept ==
  [][TwoWalletsOneName =>
       \A id \in DOMAIN users :
         users[id].walletAddress # NULL =>
           users'[id].walletAddress = users[id].walletAddress]_vars

\* both linkWallet calls of a pair have ended
BothLinked ==
  /\ proc[1].op = "linkWallet" /\ proc[2].op = "linkWallet"
  /\ proc[1].pc = "done" /\ proc[2].pc = "done"

\* both calls of the pair succeeded
BothLinkedOk == BothLinked /\ proc[1].ret.kind = "ok" /\ proc[2].ret.kind = "ok"

\* C24: two concurrent linkWallet(uid1, w) and linkWallet(uid2, w) calls with
\* uid1 # uid2, both accounts existing and w bound to no account, can both
\* pass the wallet-already-linked check before either writes, after which
\* both accounts hold walletAddress w.
DoubleLink ==
  BothLinkedOk =>
    \A p \in Procs :
      /\ proc[p].uid \in DOMAIN users
      /\ users[proc[p].uid].walletAddress = proc[p].walletAddress

\* the double link has happened through POST /wallet/link
DoubleLinkWitness ==
  /\ BothLinkedOk
  /\ proc[1].route = "/wallet/link" /\ proc[2].route = "/wallet/link"
  /\ proc[1].uid # proc[2].uid
  /\ proc[1].walletAddress = proc[2].walletAddress
  /\ WithWallet(pre, proc[1].walletAddress) = {}
  /\ WithWallet(users, proc[1].walletAddress) = {proc[1].uid, proc[2].uid}

\* call p is an authenticate call that was refused because the username is
\* already taken
RefusedAsTaken(p) ==
  /\ proc[p].op = "authenticate"
  /\ proc[p].pc = "done"
  /\ proc[p].ret.kind = "error"
  /\ proc[p].ret.message = MsgTaken

\* C34: when calls do not interleave, authenticate never returns
\* USERNAME_ALREADY_EXISTS: the isUsernameExists check before the insert is
\* reached only after the username lookup found no account, so it reports
\* taken only if another operation wrote that username between the lookup
\* and the check.
TakenOnlyByRace ==
  \A p \in Procs :
    RefusedAsTaken(p) =>
      /\ Both
      /\ WithUsername(pre, proc[p].username) = {}
      /\ WithUsername(users, proc[p].username) # {}

\* one call of a concurrent pair was refused, the other created the account
TakenOnlyByRaceWitness ==
  /\ BothEnded
  /\ RefusedAsTaken(1)
  /\ proc[2].ret.kind = "ok"
  /\ proc[2].ret.isNewUser

\* both calls of a pair that started with a rename have ended; they asked
\* for the same username, which no account held
SameNameWanted ==
  /\ proc[1].op = "rename"
  /\ proc[2].op \in {"rename", "authenticate"}
  /\ proc[1].pc = "done" /\ proc[2].pc = "done"
  /\ proc[1].username # NULL
  /\ proc[2].username = proc[1].username
  /\ proc[2].walletAddress = NULL
  /\ WithUsername(pre, proc[1].username) = {}

\* C37: for concurrent rename(uid1, n) and rename(uid2, n) with uid1 # uid2
\* on a store where no account has username n, and for a rename(uid1, n)
\* concurrent with authenticate(null, n), under every interleaving at most
\* one account ends with username n.
NoDuplicateNameRenameRace ==
  SameNameWanted => Cardinality(WithUsername(users, proc[1].username)) <= 1

====
